---- MODULE Spec2Model ----
(***************************************************************************)
(* Naukri job agent: the cron-driven orchestrator (orchestrator.js), the   *)
(* shared browser session (naukri-agent.js), the Budget Guardian and the   *)
(* free-tier rate limiter (gemini.js) and the model router                 *)
(* (model-router.js).                                                      *)
(*                                                                         *)
(* Node.js runs one handler at a time; a handler gives up control only at  *)
(* an await.  Each action below is the synchronous stretch of one handler  *)
(* between two awaits; the pc of an invocation names the await it is       *)
(* suspended at.                                                           *)
(***************************************************************************)
EXTENDS Integers, Sequences, FiniteSets, TLC

\* ---------------------------------------------------------------- bounds
\* concurrent invocations of runNaukriCycle that the cron may have pending
NCycles == 2
\* applications logged in the modelled window
MaxApplied == 1
\* days in a month of the modelled calendar
MonthDays == 2
\* concurrent invocations of callGemini
NCallers == 2
\* months of the modelled calendar the clock runs through
WindowMonths == 3
\* recordCall calls the budget model follows per day
MaxRecorded == 2
\* callGemini invocations followed in one run
MaxCalls == 3
\* logApplication calls followed in one run
MaxLogs == 3
\* records already in applied-jobs-archive.json at the start of a run
ArchivedBefore == 2
\* pieces a sample JD text is put together from
MaxFrags == 2
\* failures of generateContent followed in one run
MaxErrors == 3
\* the day's counters start at zero or this many calls below their caps
NearCap == 2
\* the time the Gemini API takes to answer a request, in ms
ReplyMs == 500

\* ------------------------------------------------------ program constants
\* if (_jdFeedbackQueue.length > 20) _jdFeedbackQueue.shift()
FeedbackQueueCap == 20
\* _jdFeedbackQueue.splice(0, 5)
FeedbackBatch == 5
\* config.budget defaults, in whole dollars
monthlyHardStopUSD == 50
monthlyPauseUSD == 45
monthlyWarningUSD == 35
\* MODEL_REGISTRY.dailyCallLimits
LimitFREE == 1400
LimitCHEAP == 1400
LimitBALANCED == 1400
LimitTOTAL == 1400
\* gemini.js FreeRateLimiter
MIN_INTERVAL_MS == 4500
MAX_DAILY_CALLS == 1400
\* gemini.js callGemini: randomDelay(1000, 2000), retries, retry waits
PoliteMinMs == 1000
PoliteMaxMs == 2000
Retries == 2
TransientWaitMs == 3000
RateLimitWaitMs == 12000
RetryJitterMs == 3000
\* memory.js logApplication: if (jobs.length > 2000)
AppliedCap == 2000

Tiers == {"FREE", "CHEAP", "BALANCED"}

VARIABLES
    \* orchestrator.js module-level state
    isPaused, isRunning, emergencyStop,
    \* invocations of the cron-triggered tasks
    cycle,        \* [1..NCycles -> pc]: runNaukriCycle
    pageTask,     \* [{"statusCheck","profileRefresh"} -> pc]
    followUp,     \* pc of runFollowUpCycle
    feedback,     \* pc of runResumeFeedback
    report,       \* pc of runHourlyReport
    queueLen,     \* _jdFeedbackQueue.length
    \* naukri-agent.js module-level state
    browser,      \* "none" (_browser = null), "open", "closed" (dead page)
    loggedIn,     \* _isLoggedIn
    closing,      \* a closeBrowser() is suspended at await _browser.close()
    \* memory/applied-jobs.json: number of records logged
    applied,
    \* history: a CAPTCHA alert was sent and no /resume since
    captchaPending,
    \* history: a runNaukriCycle trigger has returned at its guard since the
    \* last cycle start and the last setPaused / setEmergencyStop
    lastSkip,
    \* memory/budget-log.json and model-router's _forceCheap
    log, forceCheap,
    \* Date.now() in ms since the start of the modelled window, TZ offset in ms
    now, tz,
    \* index.js: startup() has run in the current process
    started,
    \* history: what the latest checkBudget returned: "none", "allowed", "blocked"
    lastCheck,
    \* FreeRateLimiter fields
    lastCallTime, callsToday, currentDay,
    \* invocations of callGemini: pc names the await the invocation is
    \* suspended at, wake the instant its timer or reply is due, slot what
    \* its waitForSlot returned
    callers,
    \* history: the times of the last two requests sent to the Gemini API
    lastReqs,
    \* history: callGemini invocations started, generateContent calls failed
    calls, errors,
    \* the task type of the latest getModel call and what it returned
    routeArg, routeOut,
    \* the latest getFallback call: <<modelKey, result>>
    fallbackOut,
    \* the arguments of the keywordFallbackScreen call and its result, each
    \* as a set of one element, or {} before the call
    screenIn, screenOut,
    \* memory/applied-jobs.json and applied-jobs-archive.json as arrays of
    \* record ids, oldest first; records 1..lastLogged have been logged
    appliedFile, archiveFile, lastLogged,
    \* history: the kinds of file operations that have failed so far, and
    \* the number of logApplication calls made
    ioFailed, logCalls

ovars == <<isPaused, isRunning, emergencyStop, cycle, pageTask, followUp,
           feedback, report, queueLen, browser, loggedIn, closing, applied,
           captchaPending, lastSkip>>
bvars == <<log, forceCheap>>
tvars == <<now, tz>>
\* the rate limiter and the callGemini invocations
lvars == <<lastCallTime, callsToday, currentDay, callers, lastReqs, calls, errors>>
\* what the orchestrator steps leave alone
\* arguments and results of the functions called on their own
rvars == <<routeArg, routeOut, fallbackOut>>
svars == <<screenIn, screenOut>>
mvars == <<appliedFile, archiveFile, lastLogged, ioFailed, logCalls>>
pvars == <<rvars, svars, mvars>>
gvars == <<started, lastCheck, lvars, pvars>>
vars == <<ovars, bvars, tvars, gvars>>

CycleIds == 1..NCycles
CallerIds == 1..NCallers
PageTasks == {"statusCheck", "profileRefresh"}

Min(a, b) == IF a < b THEN a ELSE b
Max(a, b) == IF a > b THEN a ELSE b

\* ------------------------------------------------------------- calendar
DayMs == 24 * 3600 * 1000
\* new Date().toISOString().slice(0, 10): the UTC calendar day of an instant
UtcDate(t) == t \div DayMs

\* -------------------------------------------------- BudgetGuardian (pure)
Limit(k) ==
    CASE k = "FREE" -> LimitFREE
      [] k = "CHEAP" -> LimitCHEAP
      [] k = "BALANCED" -> LimitBALANCED
      [] OTHER -> LimitTOTAL

\* _ensureTodayLog: a log of another day has its daily counters reset
EnsureTodayLog(l, t) ==
    IF l.date # UtcDate(t)
    THEN [l EXCEPT !.date = UtcDate(t),
                   !.callsByModel = [k \in Tiers |-> 0],
                   !.estimatedCostToday = 0,
                   !.totalCallsToday = 0]
    ELSE l

\* checkBudget lines 70-74: local midnight of day 1 of the next local month
\* (setMonth / setHours work in local time), printed by toISOString in UTC
NextMonthDate(t, z) ==
    LET localMonth == ((t + z) \div DayMs) \div MonthDays
        localMidnight == (localMonth + 1) * MonthDays * DayMs
    IN  UtcDate(localMidnight - z)

\* checkBudget(modelKey): <<allowed, log as saved, _forceCheap>>
CheckBudget(l0, fc, modelKey, t, z) ==
    LET l == EnsureTodayLog(l0, t)
        cost == l.estimatedCostMonth
    IN  IF l.paused
        THEN [allowed |-> FALSE, log |-> l, forceCheap |-> fc]
        ELSE IF cost >= monthlyHardStopUSD
        THEN [allowed |-> FALSE,
              log |-> [l EXCEPT !.paused = TRUE,
                                !.pausedUntil = {NextMonthDate(t, z)}],
              forceCheap |-> fc]
        ELSE LET l1 == IF cost >= monthlyPauseUSD
                       THEN [l EXCEPT !.pauseAlerted = TRUE] ELSE l
                 l2 == IF cost >= monthlyWarningUSD
                       THEN [l1 EXCEPT !.warnAlerted = TRUE] ELSE l1
             IN  [allowed |-> /\ l2.callsByModel[modelKey] < Limit(modelKey)
                              /\ l2.totalCallsToday < LimitTOTAL,
                  log |-> l2,
                  forceCheap |-> fc \/ cost >= monthlyPauseUSD]

\* MODEL_REGISTRY.costs[k].has_free_tier
HasFreeTier(k) == TRUE

\* mutant: recordCall that counts the call for the tier but not in the total
RecordCall_NoTotal(l0, modelKey, t) ==
    LET l == EnsureTodayLog(l0, t)
    IN  [l EXCEPT !.callsByModel[modelKey] = @ + 1]

\* recordCall(modelKey, ...): the log as saved
RecordCall(l0, modelKey, t) ==
    LET l == EnsureTodayLog(l0, t)
    IN  [l EXCEPT !.callsByModel[modelKey] = @ + 1,
                  !.totalCallsToday = @ + 1,
                  !.estimatedCostToday = IF HasFreeTier(modelKey) THEN @ ELSE @ + 0,
                  !.estimatedCostMonth = IF HasFreeTier(modelKey) THEN @ ELSE @ + 0]

\* resetDaily: the log as saved
ResetDailyLog(l, t) ==
    [l EXCEPT !.date = UtcDate(t),
              !.callsByModel = [k \in Tiers |-> 0],
              !.estimatedCostToday = 0,
              !.totalCallsToday = 0,
              !.warnAlerted = FALSE,
              !.pauseAlerted = FALSE]

\* checkIfShouldResume: <<resumed, log as saved, _forceCheap>>
CheckIfShouldResume(l, fc, t) ==
    IF l.paused /\ l.pausedUntil # {} /\ \A d \in l.pausedUntil : UtcDate(t) >= d
    THEN [resumed |-> TRUE,
          log |-> [l EXCEPT !.paused = FALSE, !.pausedUntil = {},
                            !.estimatedCostMonth = 0,
                            !.warnAlerted = FALSE, !.pauseAlerted = FALSE],
          forceCheap |-> FALSE]
    ELSE [resumed |-> FALSE, log |-> l, forceCheap |-> fc]

\* isBudgetPaused
IsBudgetPaused == log.paused = TRUE

\* the default budget-log.json written by initializeAllFiles
FreshLog(t) ==
    [date |-> UtcDate(t), callsByModel |-> [k \in Tiers |-> 0],
     estimatedCostToday |-> 0, estimatedCostMonth |-> 0, totalCallsToday |-> 0,
     paused |-> FALSE, pausedUntil |-> {},
     warnAlerted |-> FALSE, pauseAlerted |-> FALSE]

\* ------------------------------------------------------- orchestrator.js
\* mutant: the guard without the re-entrancy flag
CycleGuardBlocked_NoRunning == isPaused \/ emergencyStop
\* the guard of runNaukriCycle (line 38)
CycleGuardBlocked == isPaused \/ isRunning \/ emergencyStop
\* the guard of runStatusCheck, runProfileRefresh and runResumeFeedback
PageGuardBlocked == isPaused \/ emergencyStop \/ isRunning
\* the guard of runFollowUpCycle (line 363)
FollowUpGuardBlocked == isPaused \/ emergencyStop
\* the guard of runHourlyReport (line 483)
ReportGuardBlocked == emergencyStop
\* the loop checks of runNaukriCycle (lines 74, 105)
LoopBreak == isPaused \/ emergencyStop

\* detectCaptcha found a visible CAPTCHA: it alerts "Agent paused ... send
\* /resume" and returns true; it changes no orchestrator state
DetectCaptcha(found) == captchaPending' = (captchaPending \/ found)

\* the budget gate a callGemini passes: checkBudget on the persisted log
GeminiGate(called) ==
    IF called
    THEN LET r == CheckBudget(log, forceCheap, "FREE", now, tz)
         IN  log' = r.log /\ forceCheap' = r.forceCheap
    ELSE UNCHANGED bvars

\* naukriAgent.createBrowser: reuse a live page, else launch a new browser
CreateBrowser ==
    /\ browser' = "open"
    /\ loggedIn' = IF browser = "open" THEN loggedIn ELSE FALSE

\* mutant: /resume also clears the emergency stop
setPaused_ClearsStop(val) ==
    /\ isPaused' = val
    /\ emergencyStop' = IF val THEN emergencyStop ELSE FALSE
    /\ captchaPending' = IF val THEN captchaPending ELSE FALSE
    /\ lastSkip' = FALSE
    /\ UNCHANGED <<isRunning, cycle, pageTask, followUp, feedback,
                   report, queueLen, browser, loggedIn, closing, applied>>
    /\ UNCHANGED <<bvars, tvars, gvars>>

setPaused(val) ==
    /\ isPaused' = val
    /\ captchaPending' = IF val THEN captchaPending ELSE FALSE
    /\ lastSkip' = FALSE
    /\ UNCHANGED <<isRunning, emergencyStop, cycle, pageTask, followUp, feedback,
                   report, queueLen, browser, loggedIn, closing, applied>>
    /\ UNCHANGED <<bvars, tvars, gvars>>

setEmergencyStop ==
    /\ emergencyStop' = TRUE
    /\ isPaused' = TRUE
    /\ isRunning' = FALSE
    \* closeBrowser() runs up to its await _browser.close()
    /\ browser' = IF browser = "none" THEN "none" ELSE "closed"
    /\ closing' = (closing \/ browser # "none")
    /\ lastSkip' = FALSE
    /\ UNCHANGED <<cycle, pageTask, followUp, feedback, report, queueLen,
                   loggedIn, applied, captchaPending>>
    /\ UNCHANGED <<bvars, tvars, gvars>>

\* closeBrowser after its await: the module references are dropped
CloseBrowserDone ==
    /\ closing
    /\ closing' = FALSE
    /\ browser' = "none"
    /\ loggedIn' = FALSE
    /\ UNCHANGED <<isPaused, isRunning, emergencyStop, cycle, pageTask, followUp,
                   feedback, report, queueLen, applied, captchaPending, lastSkip>>
    /\ UNCHANGED <<bvars, tvars, gvars>>

\* queueJDForFeedback: push, then drop the oldest above the cap
QueueJDForFeedback == queueLen' = Min(queueLen + 1, FeedbackQueueCap)

\* what no step of runNaukriCycle touches
CycleFrame ==
    UNCHANGED <<isPaused, emergencyStop, pageTask, followUp, feedback, report,
                closing, tvars, gvars>>

\* ---- runNaukriCycle
\* lines 37-50: the guard, isRunning = true, await createBrowser()
CycleTrigger(i) ==
    /\ cycle[i] = "idle"
    \* invocations are anonymous: a new one takes the first free slot
    /\ \A j \in CycleIds : j < i => cycle[j] # "idle"
    /\ IF CycleGuardBlocked
       THEN /\ lastSkip' = TRUE
            /\ UNCHANGED <<isRunning, cycle>>
       ELSE /\ isRunning' = TRUE
            /\ cycle' = [cycle EXCEPT ![i] = "createBrowser"]
            /\ lastSkip' = FALSE
    /\ UNCHANGED <<queueLen, browser, loggedIn, applied, captchaPending, bvars>>
    /\ CycleFrame

\* lines 50-67: createBrowser returned or threw; login when not logged in
CycleCreateBrowser(i) ==
    /\ cycle[i] = "createBrowser"
    /\ \/ /\ cycle' = [cycle EXCEPT ![i] = "alert"]
          /\ UNCHANGED <<browser, loggedIn>>
       \/ /\ CreateBrowser
          /\ cycle' = [cycle EXCEPT ![i] = IF loggedIn' THEN "roles" ELSE "login"]
    /\ UNCHANGED <<isRunning, queueLen, applied, captchaPending, lastSkip, bvars>>
    /\ CycleFrame

\* lines 55-62: login returned
CycleLogin(i) ==
    /\ cycle[i] = "login"
    /\ \E r \in {"success", "captcha", "login_failed"} :
          /\ DetectCaptcha(r = "captcha")
          /\ IF r = "success"
             THEN loggedIn' = TRUE /\ cycle' = [cycle EXCEPT ![i] = "roles"]
             ELSE UNCHANGED loggedIn /\ cycle' = [cycle EXCEPT ![i] = "alert"]
    /\ UNCHANGED <<isRunning, queueLen, browser, applied, lastSkip, bvars>>
    /\ CycleFrame

\* lines 57-60 and 279-285: the alert was sent; isRunning = false; return
CycleAlertDone(i) ==
    /\ cycle[i] = "alert"
    /\ isRunning' = FALSE
    /\ cycle' = [cycle EXCEPT ![i] = "idle"]
    /\ UNCHANGED <<queueLen, browser, loggedIn, applied, captchaPending, lastSkip, bvars>>
    /\ CycleFrame

\* lines 73-85: head of the role loop; the roles left (at most 3 a cycle,
\* as many as profile.json names) are not counted: any number may be left
CycleRoles(i) ==
    /\ cycle[i] = "roles"
    /\ \E more \in BOOLEAN :
          cycle' = [cycle EXCEPT ![i] = IF more /\ ~LoopBreak THEN "search" ELSE "refresh"]
    /\ UNCHANGED <<isRunning, queueLen, browser, loggedIn, applied, captchaPending,
                   lastSkip, bvars>>
    /\ CycleFrame

\* lines 78-101: searchJobs returned (it stops at a CAPTCHA); filter new jobs
CycleSearch(i) ==
    /\ cycle[i] = "search"
    /\ \E captcha \in BOOLEAN, found \in BOOLEAN :
          /\ DetectCaptcha(captcha)
          /\ cycle' = [cycle EXCEPT ![i] = IF found THEN "jobs" ELSE "roles"]
    /\ UNCHANGED <<isRunning, queueLen, browser, loggedIn, applied, lastSkip, bvars>>
    /\ CycleFrame

\* lines 104-120 and 225-233: head of the job loop (the jobs left are not
\* counted), keyword score < 45 (continue), Easy Apply, or external queue
CycleJobs(i) ==
    /\ cycle[i] = "jobs"
    /\ IF LoopBreak
       THEN cycle' = [cycle EXCEPT ![i] = "roles"]
       ELSE \E d \in {"roles", "jobs", "apply", "delay"} :
               cycle' = [cycle EXCEPT ![i] = d]
    /\ UNCHANGED <<isRunning, queueLen, browser, loggedIn, applied, captchaPending,
                   lastSkip, bvars>>
    /\ CycleFrame

\* lines 120-145: applyEasyApply returned
CycleApply(i) ==
    /\ cycle[i] = "apply"
    /\ \/ /\ browser = "open" /\ applied < MaxApplied
          /\ applied' = applied + 1
          /\ QueueJDForFeedback
          /\ cycle' = [cycle EXCEPT ![i] = "post"]
          /\ UNCHANGED <<loggedIn, captchaPending>>
       \/ /\ DetectCaptcha(TRUE)
          /\ cycle' = [cycle EXCEPT ![i] = "delay"]
          /\ UNCHANGED <<applied, queueLen, loggedIn>>
       \/ /\ loggedIn' = FALSE
          /\ cycle' = [cycle EXCEPT ![i] = "relogin"]
          /\ UNCHANGED <<applied, queueLen, captchaPending>>
       \/ /\ cycle' = [cycle EXCEPT ![i] = "delay"]
          /\ UNCHANGED <<applied, queueLen, loggedIn, captchaPending>>
    /\ UNCHANGED <<isRunning, browser, lastSkip, bvars>>
    /\ CycleFrame

\* lines 123-137: re-login after not_logged_in
CycleRelogin(i) ==
    /\ cycle[i] = "relogin"
    /\ \E r \in {"success", "captcha", "login_failed"} :
          /\ DetectCaptcha(r = "captcha")
          /\ IF r = "success"
             THEN loggedIn' = TRUE /\ cycle' = [cycle EXCEPT ![i] = "retry"]
             ELSE UNCHANGED loggedIn /\ cycle' = [cycle EXCEPT ![i] = "jobs"]
    /\ UNCHANGED <<isRunning, queueLen, browser, applied, lastSkip, bvars>>
    /\ CycleFrame

\* lines 129-137: the retried applyEasyApply returned; continue
CycleRetry(i) ==
    /\ cycle[i] = "retry"
    /\ \/ /\ browser = "open" /\ applied < MaxApplied
          /\ applied' = applied + 1
          /\ QueueJDForFeedback
          /\ UNCHANGED captchaPending
       \/ /\ DetectCaptcha(TRUE)
          /\ UNCHANGED <<applied, queueLen>>
       \/ UNCHANGED <<applied, queueLen, captchaPending>>
    /\ cycle' = [cycle EXCEPT ![i] = "jobs"]
    /\ UNCHANGED <<isRunning, browser, loggedIn, lastSkip, bvars>>
    /\ CycleFrame

\* lines 146-221: getJDText, contacts, cover letter, recruiter message
CyclePost(i) ==
    /\ cycle[i] = "post"
    /\ \E captcha \in BOOLEAN, called \in BOOLEAN :
          /\ DetectCaptcha(captcha)
          /\ GeminiGate(called)
    /\ cycle' = [cycle EXCEPT ![i] = "delay"]
    /\ UNCHANGED <<isRunning, queueLen, browser, loggedIn, applied, lastSkip>>
    /\ CycleFrame

\* line 235: randomDelay elapsed
CycleDelay(i) ==
    /\ cycle[i] = "delay"
    /\ cycle' = [cycle EXCEPT ![i] = "jobs"]
    /\ UNCHANGED <<isRunning, queueLen, browser, loggedIn, applied, captchaPending,
                   lastSkip, bvars>>
    /\ CycleFrame

\* lines 239-285: profile refresh, summary, learning (a Gemini call once a
\* day); finally isRunning = false
CycleRefresh(i) ==
    /\ cycle[i] = "refresh"
    /\ \E called \in BOOLEAN : GeminiGate(called)
    /\ isRunning' = FALSE
    /\ cycle' = [cycle EXCEPT ![i] = "idle"]
    /\ UNCHANGED <<queueLen, browser, loggedIn, applied, captchaPending, lastSkip>>
    /\ CycleFrame

runNaukriCycle(i) ==
    \/ CycleTrigger(i) \/ CycleCreateBrowser(i) \/ CycleLogin(i) \/ CycleAlertDone(i)
    \/ CycleRoles(i) \/ CycleSearch(i) \/ CycleJobs(i) \/ CycleApply(i)
    \/ CycleRelogin(i) \/ CycleRetry(i) \/ CyclePost(i) \/ CycleDelay(i)
    \/ CycleRefresh(i)

\* ---- runStatusCheck (k = "statusCheck"), runProfileRefresh ("profileRefresh")
PageFrame ==
    UNCHANGED <<isPaused, isRunning, emergencyStop, cycle, followUp, feedback,
                report, queueLen, closing, applied, bvars, tvars, gvars>>

\* lines 403-406 / 439-442: the guard, await createBrowser()
PageTrigger(k) ==
    /\ pageTask[k] = "idle"
    /\ IF PageGuardBlocked
       THEN UNCHANGED pageTask
       ELSE pageTask' = [pageTask EXCEPT ![k] = "createBrowser"]
    /\ UNCHANGED <<browser, loggedIn, captchaPending, lastSkip>>
    /\ PageFrame

\* lines 406-414 / 442-450: createBrowser returned or threw
PageCreateBrowser(k) ==
    /\ pageTask[k] = "createBrowser"
    /\ \/ /\ pageTask' = [pageTask EXCEPT ![k] = "idle"]
          /\ UNCHANGED <<browser, loggedIn>>
       \/ /\ CreateBrowser
          /\ pageTask' = [pageTask EXCEPT ![k] = IF loggedIn' THEN "work" ELSE "login"]
    /\ UNCHANGED <<captchaPending, lastSkip>>
    /\ PageFrame

\* lines 411-413 / 447-449: login returned
PageLogin(k) ==
    /\ pageTask[k] = "login"
    /\ \E r \in {"success", "captcha", "login_failed"} :
          /\ DetectCaptcha(r = "captcha")
          /\ IF r = "success"
             THEN loggedIn' = TRUE /\ pageTask' = [pageTask EXCEPT ![k] = "work"]
             ELSE UNCHANGED loggedIn /\ pageTask' = [pageTask EXCEPT ![k] = "idle"]
    /\ UNCHANGED <<browser, lastSkip>>
    /\ PageFrame

\* lines 416-433 / 452-456: checkApplicationStatus / refreshProfileTimestamp
PageWork(k) ==
    /\ pageTask[k] = "work"
    /\ pageTask' = [pageTask EXCEPT ![k] = "idle"]
    /\ UNCHANGED <<browser, loggedIn, captchaPending, lastSkip>>
    /\ PageFrame

runStatusCheck ==
    \/ PageTrigger("statusCheck") \/ PageCreateBrowser("statusCheck")
    \/ PageLogin("statusCheck") \/ PageWork("statusCheck")

runProfileRefresh ==
    \/ PageTrigger("profileRefresh") \/ PageCreateBrowser("profileRefresh")
    \/ PageLogin("profileRefresh") \/ PageWork("profileRefresh")

\* ---- runFollowUpCycle
TaskFrame ==
    UNCHANGED <<isPaused, isRunning, emergencyStop, cycle, pageTask, browser,
                loggedIn, closing, applied, captchaPending, tvars, gvars>>

\* lines 363-388: the guards, the candidates, the first callGemini
FollowUpTrigger ==
    /\ followUp = "idle"
    /\ IF FollowUpGuardBlocked \/ IsBudgetPaused
       THEN UNCHANGED followUp
       ELSE \E any \in BOOLEAN :
               followUp' = IF any THEN "draft" ELSE "idle"
    /\ UNCHANGED <<feedback, report, queueLen, lastSkip, bvars>>
    /\ TaskFrame

\* lines 383-395: callGemini returned; next candidate (at most 5, not
\* counted here) unless the budget paused
FollowUpDraft ==
    /\ followUp = "draft"
    /\ GeminiGate(TRUE)
    /\ \E more \in BOOLEAN :
          followUp' = IF more /\ ~log'.paused THEN "draft" ELSE "idle"
    /\ UNCHANGED <<feedback, report, queueLen, lastSkip>>
    /\ TaskFrame

runFollowUpCycle == FollowUpTrigger \/ FollowUpDraft

\* ---- runResumeFeedback
\* lines 324-348: the guards, splice(0, 5), callGemini
FeedbackTrigger ==
    /\ feedback = "idle"
    /\ IF PageGuardBlocked
       THEN UNCHANGED <<feedback, queueLen>>
       ELSE IF queueLen = 0
            THEN UNCHANGED <<feedback, queueLen>>
            ELSE /\ queueLen' = Max(queueLen - FeedbackBatch, 0)
                 /\ feedback' = "call"
    /\ UNCHANGED <<followUp, report, lastSkip, bvars>>
    /\ TaskFrame

\* lines 348-358: callGemini returned
FeedbackCall ==
    /\ feedback = "call"
    /\ GeminiGate(TRUE)
    /\ feedback' = "idle"
    /\ UNCHANGED <<followUp, report, queueLen, lastSkip>>
    /\ TaskFrame

runResumeFeedback == FeedbackTrigger \/ FeedbackCall

\* ---- runHourlyReport
\* lines 482-488
ReportTrigger ==
    /\ report = "idle"
    /\ IF ReportGuardBlocked
       THEN UNCHANGED report
       ELSE report' = "send"
    /\ UNCHANGED <<followUp, feedback, queueLen, lastSkip, bvars>>
    /\ TaskFrame

ReportSend ==
    /\ report = "send"
    /\ report' = "idle"
    /\ UNCHANGED <<followUp, feedback, queueLen, lastSkip, bvars>>
    /\ TaskFrame

runHourlyReport == ReportTrigger \/ ReportSend

\* the FreeRateLimiter as constructed, and no callGemini in flight
IdleCaller ==
    [pc |-> "idle", wake |-> 0, task |-> "none", tier |-> "FREE", attempt |-> 0,
     slot |-> "none"]
LimiterInit ==
    /\ lastCallTime = 0 /\ callsToday = 0 /\ currentDay = UtcDate(now)
    /\ callers = [c \in CallerIds |-> IdleCaller]
    /\ lastReqs = <<>>
    /\ calls = 0 /\ errors = 0

\* nothing has been called yet
PureInit ==
    /\ routeArg = "none" /\ routeOut = "none"
    /\ fallbackOut = <<>>
    /\ screenIn = {} /\ screenOut = {}
    /\ appliedFile = <<>> /\ archiveFile = <<>> /\ lastLogged = 0
    /\ ioFailed = {} /\ logCalls = 0

\* ---- the orchestrator as started by index.js
\* estimatedCostMonth values a persisted budget-log.json may hold
OrchCosts == {0, monthlyHardStopUSD}

OrchInit ==
    /\ isPaused = FALSE /\ isRunning = FALSE /\ emergencyStop = FALSE
    /\ cycle = [i \in CycleIds |-> "idle"]
    /\ pageTask = [k \in PageTasks |-> "idle"]
    /\ followUp = "idle"
    /\ feedback = "idle" /\ report = "idle"
    /\ queueLen = 0
    /\ browser = "none" /\ loggedIn = FALSE /\ closing = FALSE
    /\ applied = 0
    /\ captchaPending = FALSE
    /\ lastSkip = FALSE

Init ==
    /\ OrchInit
    /\ now = DayMs /\ tz = 0
    /\ \E c \in OrchCosts : log = [FreshLog(now) EXCEPT !.estimatedCostMonth = c]
    /\ forceCheap = FALSE
    /\ started = TRUE /\ lastCheck = "none"
    /\ LimiterInit
    /\ PureInit

Next ==
    \/ \E i \in CycleIds : runNaukriCycle(i)
    \/ runStatusCheck
    \/ runProfileRefresh
    \/ runFollowUpCycle
    \/ runResumeFeedback
    \/ runHourlyReport
    \/ \E val \in BOOLEAN : setPaused(val)
    \/ setEmergencyStop
    \/ CloseBrowserDone

Spec == Init /\ [][Next]_vars

\* ------------------------------------------------- claims on Spec
CyclesInProgress == {i \in CycleIds : cycle[i] # "idle"}

\* the pcs at which a task is suspended inside a call that drives the page
CyclePagePcs == {"login", "search", "apply", "relogin", "retry", "post", "refresh"}
PageDrivers ==
    {<<"cycle", i>> : i \in {j \in CycleIds : cycle[j] \in CyclePagePcs}}
    \cup {<<k, 0>> : k \in {t \in PageTasks : pageTask[t] \in {"login", "work"}}}

\* C1: at any moment at most one runNaukriCycle execution is in progress
\* (a trigger that arrives while one runs returns at the guard)
C1_AtMostOneCycle == Cardinality(CyclesInProgress) <= 1

\* C1 witness: a cycle is still in progress after an emergency stop reset
\* isRunning and /resume cleared isPaused, and a new trigger was turned away
C1_Witness ==
    /\ CyclesInProgress # {}
    /\ ~isRunning /\ ~isPaused
    /\ lastSkip

\* C2 (as claimed): no two of runNaukriCycle, runStatusCheck and
\* runProfileRefresh drive the shared page at the same time
C2_OnePageDriver == Cardinality(PageDrivers) <= 1

NoTaskStarts ==
    /\ \A i \in CycleIds : cycle[i] = "idle" => cycle'[i] = "idle"
    /\ \A k \in PageTasks : pageTask[k] = "idle" => pageTask'[k] = "idle"
    /\ followUp = "idle" => followUp' = "idle"
    /\ feedback = "idle" => feedback' = "idle"
    /\ report = "idle" => report' = "idle"

\* C3: once setEmergencyStop was called the flag stays set whatever is
\* called (setPaused(false) included), and no later call of the six cron
\* tasks gets past its guard
C3_EmergencyStopPermanent ==
    [][emergencyStop => (emergencyStop' /\ NoTaskStarts)]_vars

\* C3 witness: after /stop and then /resume a cycle trigger was turned away
C3_Witness ==
    /\ emergencyStop /\ ~isPaused
    /\ lastSkip
    /\ CyclesInProgress = {}

\* C4 (as claimed): after a CAPTCHA alert no runNaukriCycle starts until
\* the user sends /resume
C4_CaptchaPausesAgent ==
    [][captchaPending => \A i \in CycleIds : cycle[i] = "idle" => cycle'[i] = "idle"]_vars

\* C6 (as claimed): while the budget log is paused no application is logged
C6_NoApplicationWhileBudgetPaused ==
    [][log.paused => applied' = applied]_vars

\* ------------------------------------------------ the Budget Guardian
\* The budget log is a file: it outlives the process.  The clock moves in
\* quarter days through WindowMonths months of MonthDays days, in a zone
\* west of, at, or east of UTC.
TickMs == 6 * 3600 * 1000
WindowEnd == WindowMonths * MonthDays * DayMs
Zones == {0 - TickMs, 0, TickMs}
BudgetCosts ==
    {0, monthlyWarningUSD, monthlyPauseUSD, monthlyHardStopUSD - 1,
     monthlyHardStopUSD, monthlyHardStopUSD + 1}

BudgetFrame == UNCHANGED <<ovars, lvars, pvars, tz>>

\* index.js startup(): the module state is fresh, checkIfShouldResume runs
\* once, then the cron jobs are scheduled
Startup ==
    /\ ~started
    /\ started' = TRUE
    /\ LET r == CheckIfShouldResume(log, FALSE, now)
       IN  log' = r.log /\ forceCheap' = r.forceCheap
    /\ UNCHANGED <<now, lastCheck>>
    /\ BudgetFrame

\* SIGTERM / SIGINT / a failed startup: the process ends, the file stays
ProcessExit ==
    /\ started
    /\ started' = FALSE
    /\ forceCheap' = FALSE
    /\ UNCHANGED <<now, log, lastCheck>>
    /\ BudgetFrame

\* callGemini -> budgetGuardian.checkBudget(modelKey)
BudgetCheck(k) ==
    /\ started
    /\ LET r == CheckBudget(log, forceCheap, k, now, tz)
       IN  /\ log' = r.log
           /\ forceCheap' = r.forceCheap
           /\ lastCheck' = IF r.allowed THEN "allowed" ELSE "blocked"
    /\ UNCHANGED <<now, started>>
    /\ BudgetFrame

\* callGemini -> budgetGuardian.recordCall(modelKey, ...)
BudgetRecord(k) ==
    /\ started
    /\ EnsureTodayLog(log, now).totalCallsToday < MaxRecorded
    /\ log' = RecordCall(log, k, now)
    /\ UNCHANGED <<now, forceCheap, started, lastCheck>>
    /\ BudgetFrame

\* the midnight cron: budgetGuardian.resetDaily()
ResetDaily ==
    /\ started
    /\ log' = ResetDailyLog(log, now)
    /\ UNCHANGED <<now, forceCheap, started, lastCheck>>
    /\ BudgetFrame

\* /budget, /health, the hourly report: getBudgetStatus -> _ensureTodayLog
GetBudgetStatus ==
    /\ started
    /\ log' = EnsureTodayLog(log, now)
    /\ UNCHANGED <<now, forceCheap, started, lastCheck>>
    /\ BudgetFrame

\* time passes
BudgetTick ==
    /\ now + TickMs < WindowEnd
    /\ now' = now + TickMs
    /\ UNCHANGED <<log, forceCheap, started, lastCheck>>
    /\ BudgetFrame

InitBudget ==
    /\ OrchInit
    /\ now = DayMs
    /\ tz \in Zones
    /\ \E c \in BudgetCosts : log = [FreshLog(now) EXCEPT !.estimatedCostMonth = c]
    /\ forceCheap = FALSE
    /\ started = FALSE /\ lastCheck = "none"
    /\ LimiterInit
    /\ PureInit

NextBudget ==
    \/ Startup
    \/ ProcessExit
    \/ \E k \in Tiers : BudgetCheck(k)
    \/ \E k \in Tiers : BudgetRecord(k)
    \/ ResetDaily
    \/ GetBudgetStatus
    \/ BudgetTick

SpecBudget == InitBudget /\ [][NextBudget]_vars

\* ------------------------------------------------- claims on SpecBudget
\* the log a checkBudget call at this instant works on
LogAtCheck == EnsureTodayLog(log, now)
AtHardStop == LogAtCheck.estimatedCostMonth >= monthlyHardStopUSD

\* day 1 of the month after the current one, in the calendar of the
\* machine's zone or in the UTC calendar of the log's dates
FirstOfNextMonth ==
    {((((now + tz) \div DayMs) \div MonthDays) + 1) * MonthDays,
     ((UtcDate(now) \div MonthDays) + 1) * MonthDays}

\* a checkBudget at or above the hard stop, or on a paused log, returns
\* allowed = false and leaves the log paused
C5_Blocks ==
    [][\A k \in Tiers : (BudgetCheck(k) /\ (AtHardStop \/ LogAtCheck.paused))
          => (lastCheck' = "blocked" /\ log'.paused)]_vars

\* the checkBudget that pauses the log sets pausedUntil to the first day
\* of the next month
C5_PausedUntil ==
    [][\A k \in Tiers : (BudgetCheck(k) /\ AtHardStop /\ ~LogAtCheck.paused)
          => (log'.pausedUntil # {} /\ log'.pausedUntil \subseteq FirstOfNextMonth)]_vars

\* only checkIfShouldResume (called by startup) unpauses the log
C5_OnlyResumeUnpauses ==
    [][(log.paused /\ ~log'.paused) => Startup]_vars

\* C5 (as claimed): at or above the monthly hard stop checkBudget returns
\* allowed = false for every model key, marks the log paused until the
\* first day of the next month, and every later checkBudget is refused
\* until checkIfShouldResume unpauses the log
C5_HardStopBlocks ==
    [][/\ \A k \in Tiers : (BudgetCheck(k) /\ (AtHardStop \/ LogAtCheck.paused))
            => (lastCheck' = "blocked" /\ log'.paused)
       /\ \A k \in Tiers : (BudgetCheck(k) /\ AtHardStop /\ ~LogAtCheck.paused)
            => (log'.pausedUntil # {} /\ log'.pausedUntil \subseteq FirstOfNextMonth)
       /\ (log.paused /\ ~log'.paused) => Startup]_vars

\* ------------------------------------------- claims on FairSpecBudget
\* A continuously running agent: the clock advances, the cron-driven
\* operations keep being called, and a process that is down is started.
\* Nothing forces the process to exit.
FairSpecBudget ==
    /\ InitBudget /\ [][NextBudget]_vars
    /\ WF_vars(BudgetTick)
    /\ WF_vars(Startup)
    /\ WF_vars(\E k \in Tiers : BudgetCheck(k))
    /\ WF_vars(ResetDaily)
    /\ WF_vars(GetBudgetStatus)

\* the agent is up, the log is paused and the date has reached pausedUntil
PauseDue ==
    /\ started
    /\ log.paused /\ log.pausedUntil # {}
    /\ \A d \in log.pausedUntil : UtcDate(now) >= d

\* C7 (as claimed): once the date reaches pausedUntil in a running agent
\* the budget log eventually becomes unpaused
C7_BudgetPauseEnds == PauseDue ~> ~log.paused

\* ------------------------------------------------------ model-router.js
\* MODEL_REGISTRY.models[k]; "undefined" stands for the JS value undefined
Models(k) == IF k \in Tiers THEN "gemini-2.0-flash" ELSE "undefined"

\* MODEL_REGISTRY.taskRouting: the task types it has an entry for
RoutedTasks ==
    {"company_research", "jd_screening", "keyword_extraction", "hourly_insight",
     "report_generation", "follow_up_draft", "dedup_check", "jd_analysis_full",
     "recruiter_message", "resume_tailor", "interview_prep", "offer_analysis"}
\* names every JS object inherits from Object.prototype (a sample): a
\* property lookup with one of them finds the inherited member
InheritedKeys == {"constructor", "toString", "__proto__"}
\* MODEL_REGISTRY.taskRouting[taskType]: an entry of the table, an
\* inherited member (truthy, without model and mode), or undefined
TaskRouting(taskType) ==
    IF taskType \in RoutedTasks
    THEN [truthy |-> TRUE, model |-> "FREE", mode |-> "batch"]
    ELSE IF taskType \in InheritedKeys
    THEN [truthy |-> TRUE, model |-> "undefined", mode |-> "undefined"]
    ELSE [truthy |-> FALSE, model |-> "undefined", mode |-> "undefined"]

\* getModel(taskType), _forceCheap passed in
GetModel(taskType, fc) ==
    LET routing == TaskRouting(taskType)
    IN  IF ~routing.truthy
    THEN [modelId |-> Models("CHEAP"), mode |-> "batch", costTier |-> "CHEAP"]
    ELSE LET costTier == IF fc /\ routing.model # "FREE" THEN "CHEAP"
                         ELSE routing.model
         IN  [modelId |-> Models(costTier), mode |-> routing.mode,
              costTier |-> costTier]

\* getFallback(modelKey)
GetFallback(modelKey) ==
    CASE modelKey = "FREE" -> "BALANCED"
      [] modelKey = "BALANCED" -> "CHEAP"
      [] OTHER -> "CHEAP"

\* --------------------------------------- FreeRateLimiter and callGemini
\* A callGemini invocation runs from one await to the next in one step.
\* Timers and replies are due at callers[c].wake; the clock jumps from one
\* due instant to the next, so every continuation runs exactly when due.
SampleTasks == {"jd_screening", "not_a_task_type"}
Pending == {c \in CallerIds : callers[c].pc # "idle"}

GeminiFrame == UNCHANGED <<ovars, pvars, tz, started>>

\* _resetIfNewDay: <<_currentDay, _callsToday>>
ResetIfNewDay(day, n, t) == IF UtcDate(t) # day THEN <<UtcDate(t), 0>> ELSE <<day, n>>

\* a request goes out to the Gemini API now
SendRequest == lastReqs' = IF lastReqs = <<>> THEN <<now>>
                           ELSE <<lastReqs[Len(lastReqs)], now>>

\* callGemini lines 267-285, after waitForSlot returned true: getModel,
\* checkBudget, and the polite delay of batch mode
AfterSlot(c, taskType) ==
    LET routing == GetModel(taskType, forceCheap)
        r == CheckBudget(log, forceCheap, routing.costTier, now, tz)
    IN  /\ log' = r.log
        /\ forceCheap' = r.forceCheap
        /\ lastCheck' = IF r.allowed THEN "allowed" ELSE "blocked"
        /\ IF ~r.allowed
           THEN callers' = [callers EXCEPT ![c] =
                    [IdleCaller EXCEPT !.slot = "granted"]]
           ELSE \E d \in {PoliteMinMs, PoliteMaxMs} :
                  callers' = [callers EXCEPT ![c] =
                    [pc |-> "delay",
                     wake |-> IF routing.mode = "batch" THEN now + d ELSE now,
                     task |-> taskType, tier |-> routing.costTier,
                     attempt |-> 0, slot |-> "granted"]]

\* callGemini is called: waitForSlot up to its await (lines 236-248), and
\* on when it does not have to wait
CallGemini(c, taskType) ==
    /\ started
    /\ callers[c].pc = "idle"
    /\ \A j \in CallerIds : j < c => callers[j].pc # "idle"
    /\ calls < MaxCalls
    /\ calls' = calls + 1
    /\ LET d == ResetIfNewDay(currentDay, callsToday, now)
           elapsed == now - lastCallTime
       IN  /\ currentDay' = d[1]
           /\ IF d[2] >= MAX_DAILY_CALLS
              THEN /\ callers' = [callers EXCEPT ![c] =
                          [IdleCaller EXCEPT !.slot = "refused"]]
                   /\ callsToday' = d[2]
                   /\ UNCHANGED <<lastCallTime, bvars, lastCheck>>
              ELSE IF elapsed < MIN_INTERVAL_MS
              THEN /\ callers' = [callers EXCEPT ![c] =
                          [IdleCaller EXCEPT !.pc = "slot",
                              !.wake = now + (MIN_INTERVAL_MS - elapsed),
                              !.task = taskType]]
                   /\ callsToday' = d[2]
                   /\ UNCHANGED <<lastCallTime, bvars, lastCheck>>
              ELSE /\ lastCallTime' = now
                   /\ callsToday' = d[2] + 1
                   /\ AfterSlot(c, taskType)
    /\ UNCHANGED <<now, lastReqs, errors>>
    /\ GeminiFrame

\* the timer of waitForSlot fires (lines 250-252), callGemini goes on
SlotWake(c) ==
    /\ callers[c].pc = "slot" /\ callers[c].wake = now
    /\ lastCallTime' = now
    /\ callsToday' = callsToday + 1
    /\ AfterSlot(c, callers[c].task)
    /\ UNCHANGED <<now, currentDay, lastReqs, calls, errors>>
    /\ GeminiFrame

\* attempt n of the retry loop calls generateContent (line 291)
Generate(c, n) ==
    /\ SendRequest
    /\ callers' = [callers EXCEPT ![c].pc = "request", ![c].attempt = n,
                                  ![c].wake = now + ReplyMs]

\* the polite delay is over
DelayDone(c) ==
    /\ callers[c].pc = "delay" /\ callers[c].wake = now
    /\ Generate(c, 0)
    /\ UNCHANGED <<now, bvars, lastCheck, lastCallTime, callsToday, currentDay, calls,
                   errors>>
    /\ GeminiFrame

\* generateContent settles (lines 292-363)
Reply(c) ==
    /\ callers[c].pc = "request" /\ callers[c].wake = now
    /\ \/ \* a response: recordCall, return the text
          /\ log' = RecordCall(log, callers[c].tier, now)
          /\ callers' = [callers EXCEPT ![c] = [IdleCaller EXCEPT !.slot = "granted"]]
          /\ UNCHANGED <<lastReqs, errors>>
       \/ \* 429 or a transient error with attempts left: wait, then retry
          \* (the shortest and the longest of the waits randomDelay draws)
          /\ callers[c].attempt < Retries
          /\ errors < MaxErrors /\ errors' = errors + 1
          /\ \E w \in {TransientWaitMs, RateLimitWaitMs + RetryJitterMs} :
               callers' = [callers EXCEPT ![c].pc = "backoff", ![c].wake = now + w]
          /\ UNCHANGED <<log, lastReqs>>
       \/ \* another error before the last attempt: return null
          /\ callers[c].attempt < Retries
          /\ errors < MaxErrors /\ errors' = errors + 1
          /\ callers' = [callers EXCEPT ![c] = [IdleCaller EXCEPT !.slot = "granted"]]
          /\ UNCHANGED <<log, lastReqs>>
       \/ \* any error on the last attempt: the fallback model, if another
          /\ callers[c].attempt = Retries
          /\ errors < MaxErrors /\ errors' = errors + 1
          /\ IF GetFallback(callers[c].tier) # callers[c].tier
             THEN /\ SendRequest
                  /\ callers' = [callers EXCEPT ![c].pc = "fallback",
                                                ![c].wake = now + ReplyMs]
             ELSE /\ callers' = [callers EXCEPT ![c] =
                         [IdleCaller EXCEPT !.slot = "granted"]]
                  /\ UNCHANGED lastReqs
          /\ UNCHANGED log
    /\ UNCHANGED <<now, forceCheap, lastCheck, lastCallTime, callsToday, currentDay, calls>>
    /\ GeminiFrame

\* the retry wait is over (line 329-330)
BackoffDone(c) ==
    /\ callers[c].pc = "backoff" /\ callers[c].wake = now
    /\ Generate(c, callers[c].attempt + 1)
    /\ UNCHANGED <<now, bvars, lastCheck, lastCallTime, callsToday, currentDay, calls,
                   errors>>
    /\ GeminiFrame

\* the fallback model's generateContent settles (lines 341-357)
FallbackReply(c) ==
    /\ callers[c].pc = "fallback" /\ callers[c].wake = now
    /\ \/ log' = RecordCall(log, GetFallback(callers[c].tier), now)
       \/ UNCHANGED log
    /\ callers' = [callers EXCEPT ![c] = [IdleCaller EXCEPT !.slot = "granted"]]
    /\ UNCHANGED <<now, forceCheap, lastCheck, lastCallTime, callsToday, currentDay,
                   lastReqs, calls, errors>>
    /\ GeminiFrame

\* time passes: to the next due instant, or, with nothing pending and the
\* last slot less than the limiter's interval ago, by that interval
GeminiTick ==
    /\ \A c \in Pending : callers[c].wake > now
    /\ IF Pending # {}
       THEN \E c \in Pending :
              /\ \A j \in Pending : callers[c].wake <= callers[j].wake
              /\ now' = callers[c].wake
       ELSE /\ calls < MaxCalls
            /\ now - lastCallTime < MIN_INTERVAL_MS
            /\ now' = now + MIN_INTERVAL_MS
    /\ UNCHANGED <<bvars, lastCheck, lvars>>
    /\ GeminiFrame

\* the limiter counted n slots today and the log holds m recorded calls
InitGemini ==
    /\ OrchInit
    /\ now = DayMs /\ tz = 0
    /\ started = TRUE /\ lastCheck = "none"
    /\ forceCheap = FALSE
    /\ \E m \in {0, LimitTOTAL - NearCap} :
         log = [FreshLog(now) EXCEPT !.totalCallsToday = m, !.callsByModel["FREE"] = m]
    /\ lastCallTime = 0 /\ currentDay = UtcDate(now)
    /\ callsToday \in {0, MAX_DAILY_CALLS - NearCap}
    /\ callers = [c \in CallerIds |-> IdleCaller]
    /\ lastReqs = <<>>
    /\ calls = 0 /\ errors = 0
    /\ PureInit

NextGemini ==
    \/ \E c \in CallerIds, taskType \in SampleTasks : CallGemini(c, taskType)
    \/ \E c \in CallerIds : SlotWake(c)
    \/ \E c \in CallerIds : DelayDone(c)
    \/ \E c \in CallerIds : Reply(c)
    \/ \E c \in CallerIds : BackoffDone(c)
    \/ \E c \in CallerIds : FallbackReply(c)
    \/ GeminiTick

SpecGemini == InitGemini /\ [][NextGemini]_vars

\* ------------------------------------------------- claims on SpecGemini
\* C8 (as claimed): any two successive requests to the Gemini API are at
\* least MIN_INTERVAL_MS apart
C8_MinInterval ==
    Len(lastReqs) = 2 => lastReqs[2] - lastReqs[1] >= MIN_INTERVAL_MS

\* a waitForSlot that finds the day's count at the cap returns false
C9_RefusesAtCap ==
    [][\A c \in CallerIds, taskType \in SampleTasks :
          (CallGemini(c, taskType)
             /\ ResetIfNewDay(currentDay, callsToday, now)[2] >= MAX_DAILY_CALLS)
          => (callers'[c].slot = "refused" /\ callers'[c].pc = "idle"
                /\ callsToday' = callsToday)]_vars

\* C9 (as claimed): _callsToday never exceeds MAX_DAILY_CALLS, and
\* waitForSlot returns false once the cap is reached
C9_DailyCallCap ==
    [][/\ callsToday' <= MAX_DAILY_CALLS
       /\ \A c \in CallerIds, taskType \in SampleTasks :
            (CallGemini(c, taskType)
               /\ ResetIfNewDay(currentDay, callsToday, now)[2] >= MAX_DAILY_CALLS)
            => callers'[c].slot = "refused"]_vars

\* C10 (as claimed): the budget log never holds more calls for a day than
\* the TOTAL limit, nor more calls of a tier than that tier's limit
C10_DailyLimits ==
    /\ log.totalCallsToday <= LimitTOTAL
    /\ \A k \in Tiers : log.callsByModel[k] <= Limit(k)

\* ------------------------------------------- recordCall on SpecBudget
\* what recordCall(k) does to the log `before`, as seen in the saved log
CountsOneCall(before, k) ==
    /\ log'.totalCallsToday = before.totalCallsToday + 1
    /\ log'.callsByModel[k] = before.callsByModel[k] + 1
    /\ \A j \in Tiers \ {k} : log'.callsByModel[j] = before.callsByModel[j]
    /\ log'.paused = before.paused
    /\ log'.pausedUntil = before.pausedUntil

TaskTypes ==
    RoutedTasks \cup InheritedKeys \cup {"not_a_task_type", "completely_unknown_task_xyz"}

RouterFrame == UNCHANGED <<ovars, lvars, svars, mvars, log, tvars, started, lastCheck>>

\* getModel(taskType)
RouteCall(taskType) ==
    /\ routeArg' = taskType
    /\ routeOut' = GetModel(taskType, forceCheap)
    /\ UNCHANGED <<forceCheap, fallbackOut>>
    /\ RouterFrame

\* setForceCheap(val)
SetForceCheap(val) ==
    /\ forceCheap' = val
    /\ UNCHANGED <<routeArg, routeOut, fallbackOut>>
    /\ RouterFrame

\* getFallback(modelKey)
FallbackCall(modelKey) ==
    /\ fallbackOut' = <<modelKey, GetFallback(modelKey)>>
    /\ UNCHANGED <<forceCheap, routeArg, routeOut>>
    /\ RouterFrame

NextRouter ==
    \/ \E taskType \in TaskTypes : RouteCall(taskType)
    \/ \E val \in BOOLEAN : SetForceCheap(val)
    \/ \E modelKey \in Tiers \cup {"undefined"} : FallbackCall(modelKey)

SpecRouter == Init /\ [][NextRouter]_vars

\* ------------------------------------------------- claims on SpecRouter
NonEmptyId(id) == id \notin {"", "undefined"}

\* getModel on the entries of the table and on names the table object
\* does not have at all
C12_EntriesAndPlainUnknowns ==
    (routeArg # "none" /\ routeArg \notin InheritedKeys) =>
        IF routeArg \in RoutedTasks
        THEN NonEmptyId(routeOut.modelId) /\ routeOut.modelId = Models(routeOut.costTier)
        ELSE routeOut = [modelId |-> Models("CHEAP"), mode |-> "batch", costTier |-> "CHEAP"]

\* C12 (as claimed): for every task type that is not in the routing table
\* getModel returns cost tier CHEAP in batch mode with the registry's
\* non-empty CHEAP model id, and for every task type in the table a
\* non-empty modelId that is the registry model of the returned costTier
C12_GetModelTotal ==
    routeArg # "none" =>
        IF routeArg \in RoutedTasks
        THEN NonEmptyId(routeOut.modelId) /\ routeOut.modelId = Models(routeOut.costTier)
        ELSE /\ routeOut.costTier = "CHEAP" /\ routeOut.mode = "batch"
             /\ routeOut.modelId = Models("CHEAP") /\ NonEmptyId(routeOut.modelId)

\* ------------------------------------------------------ jd-analyzer.js
\* Strings are sequences of one-character strings.
\* String.prototype.toLowerCase on the letters A-Z
LowerOf ==
      ("A" :> "a") @@ ("B" :> "b") @@ ("C" :> "c") @@ ("D" :> "d") @@ ("E"
      :> "e") @@ ("F" :> "f") @@ ("G" :> "g") @@ ("H" :> "h") @@ ("I" :>
      "i") @@ ("J" :> "j") @@ ("K" :> "k") @@ ("L" :> "l") @@ ("M" :> "m")
      @@ ("N" :> "n") @@ ("O" :> "o") @@ ("P" :> "p") @@ ("Q" :> "q") @@
      ("R" :> "r") @@ ("S" :> "s") @@ ("T" :> "t") @@ ("U" :> "u") @@ ("V"
      :> "v") @@ ("W" :> "w") @@ ("X" :> "x") @@ ("Y" :> "y") @@ ("Z" :>
      "z")
ToLowerCase(str) ==
    [i \in 1..Len(str) |-> IF str[i] \in DOMAIN LowerOf THEN LowerOf[str[i]] ELSE str[i]]
\* String.prototype.includes
Includes(str, kw) ==
    \E i \in 0..(Len(str) - Len(kw)) : \A j \in 1..Len(kw) : str[i + j] = kw[j]
\* for (const kw of list) if (text.includes(kw)) n++
CountHits(text, list) == Cardinality({i \in 1..Len(list) : Includes(text, list[i])})
AnyHit(text, list) == \E i \in 1..Len(list) : Includes(text, list[i])

RoleKeywords ==
    <<<<"o", "p", "e", "r", "a", "t", "i", "o", "n", "s">>,
      <<"d", "i", "r", "e", "c", "t", "o", "r">>,
      <<"h", "e", "a", "d", " ", "o", "f">>,
      <<"v", "p", " ">>,
      <<"v", "i", "c", "e", " ", "p", "r", "e", "s", "i", "d", "e", "n", "t">>,
      <<"g", "e", "n", "e", "r", "a", "l", " ", "m", "a", "n", "a", "g", "e", "r">>,
      <<"c", "h", "i", "e", "f">>,
      <<"l", "e", "a", "d", "e", "r">>,
      <<"s", "t", "r", "a", "t", "e", "g", "y">>,
      <<"t", "r", "a", "n", "s", "f", "o", "r", "m", "a", "t", "i", "o", "n">>,
      <<"p", "r", "o", "g", "r", "a", "m", " ", "m", "a", "n", "a", "g", "e", "m", "e", "n", "t">>,
      <<"b", "u", "s", "i", "n", "e", "s", "s", " ", "o", "p", "e", "r", "a", "t", "i", "o", "n", "s">>,
      <<"s", "e", "n", "i", "o", "r", " ", "m", "a", "n", "a", "g", "e", "r">>,
      <<"a", "s", "s", "o", "c", "i", "a", "t", "e", " ", "d", "i", "r", "e", "c", "t", "o", "r">>,
      <<"g", "l", "o", "b", "a", "l">>,
      <<"e", "n", "t", "e", "r", "p", "r", "i", "s", "e">>,
      <<"a", "r", "t", "i", "f", "i", "c", "i", "a", "l", " ", "i", "n", "t", "e", "l", "l", "i", "g", "e", "n", "c", "e">>,
      <<"a", "i">>,
      <<"m", "a", "c", "h", "i", "n", "e", " ", "l", "e", "a", "r", "n", "i", "n", "g">>,
      <<"l", "l", "m">>,
      <<"g", "e", "n", "e", "r", "a", "t", "i", "v", "e", " ", "a", "i">>>>
ExperienceMarks ==
    <<<<"1", "0", "+">>,
      <<"1", "0", "-">>,
      <<"1", "2", "+">>,
      <<"1", "5", "+">>,
      <<"8", "+">>,
      <<"8", "-", "1", "5">>,
      <<"1", "0", "-", "2", "0">>>>
Negatives ==
    <<<<"i", "n", "t", "e", "r", "n">>,
      <<"f", "r", "e", "s", "h", "e", "r">>,
      <<"e", "n", "t", "r", "y", " ", "l", "e", "v", "e", "l">>,
      <<"0", "-", "2", " ", "y", "e", "a", "r", "s">>,
      <<"1", "-", "3", " ", "y", "e", "a", "r", "s">>,
      <<"2", "-", "4", " ", "y", "e", "a", "r", "s">>,
      <<"j", "u", "n", "i", "o", "r">>>>
FreshMarks ==
    <<<<"j", "u", "s", "t", " ", "n", "o", "w">>,
      <<"f", "e", "w", " ", "h", "o", "u", "r", "s", " ", "a", "g", "o">>,
      <<"t", "o", "d", "a", "y">>,
      <<"1", " ", "d", "a", "y", " ", "a", "g", "o">>,
      <<"1", " ", "d", "a", "y">>>>

\* mutant: keywordFallbackScreen without the final clamp to 0..100
KeywordFallbackScreen_NoClamp(jdText, profile, job) ==
    LET text == ToLowerCase(jdText)
        s0 == 40
        s1 == s0 + 5 * CountHits(text, RoleKeywords)
        skillKeywords == [i \in 1..Len(profile.skills) |-> ToLowerCase(profile.skills[i])]
        skillHits == CountHits(text, skillKeywords)
        s2 == s1 + Min(skillHits * 3, 20)
        locations == [i \in 1..Len(profile.targetLocations) |->
                         ToLowerCase(profile.targetLocations[i])]
        s3 == IF AnyHit(text, locations) THEN s2 + 5 ELSE s2
        s4 == IF AnyHit(text, ExperienceMarks) THEN s3 + 5 ELSE s3
        s5 == s4 - 15 * CountHits(text, Negatives)
        s6 == IF job.present /\ job.postedDate # <<>>
                 /\ AnyHit(ToLowerCase(job.postedDate), FreshMarks)
              THEN s5 + 100 ELSE s5
        score == s6
    IN  [worthAnalyzing |-> score >= 50, quickScore |-> score]

\* keywordFallbackScreen(jdText, profile, job): the statements in order
KeywordFallbackScreen(jdText, profile, job) ==
    LET text == ToLowerCase(jdText)
        s0 == 40
        s1 == s0 + 5 * CountHits(text, RoleKeywords)
        skillKeywords == [i \in 1..Len(profile.skills) |-> ToLowerCase(profile.skills[i])]
        skillHits == CountHits(text, skillKeywords)
        s2 == s1 + Min(skillHits * 3, 20)
        locations == [i \in 1..Len(profile.targetLocations) |->
                         ToLowerCase(profile.targetLocations[i])]
        s3 == IF AnyHit(text, locations) THEN s2 + 5 ELSE s2
        s4 == IF AnyHit(text, ExperienceMarks) THEN s3 + 5 ELSE s3
        s5 == s4 - 15 * CountHits(text, Negatives)
        s6 == IF job.present /\ job.postedDate # <<>>
                 /\ AnyHit(ToLowerCase(job.postedDate), FreshMarks)
              THEN s5 + 100 ELSE s5
        score == Max(0, Min(100, s6))
    IN  [worthAnalyzing |-> score >= 50, quickScore |-> score]

\* ---- inputs of keywordFallbackScreen
\* a JD text is up to MaxFrags of these pieces, one after the other
JdFragments ==
    <<<<"D", "i", "r", "e", "c", "t", "o", "r", " ", "o", "f", " ", "O", "p", "e", "r", "a", "t", "i", "o", "n", "s", " ">>,
      <<"H", "e", "a", "d", " ", "o", "f", " ", "A", "I", " ", "s", "t", "r", "a", "t", "e", "g", "y", ",", " ", "g", "l", "o", "b", "a", "l", " ">>,
      <<"G", "e", "n", "e", "r", "a", "t", "i", "v", "e", " ", "A", "I", " ", "L", "L", "M", " ">>,
      <<"I", "n", "t", "e", "r", "n", "a", "t", "i", "o", "n", "a", "l", " ", "c", "h", "a", "i", "n", " ">>,
      <<"I", "n", "t", "e", "r", "n", ",", " ", "f", "r", "e", "s", "h", "e", "r", ",", " ", "j", "u", "n", "i", "o", "r", " ">>,
      <<"e", "n", "t", "r", "y", " ", "l", "e", "v", "e", "l", " ", "0", "-", "2", " ", "y", "e", "a", "r", "s", " ">>,
      <<"1", "0", "-", "2", "0", " ", "y", "r", "s", ",", " ", "R", "e", "m", "o", "t", "e", " ">>,
      <<"P", "o", "s", "t", "g", "r", "e", "S", "Q", "L", " ", "P", "o", "w", "e", "r", " ", "B", "I", " ", "A", "P", "I", " ">>>>
JdTexts ==
    UNION {[1..n -> 1..Len(JdFragments)] : n \in 0..MaxFrags}
RECURSIVE Concat(_)
Concat(ix) ==
    IF ix = <<>> THEN <<>> ELSE JdFragments[Head(ix)] \o Concat(Tail(ix))

\* profile.json: skills and targetLocations (absent arrays count as empty)
Profiles ==
    {[skills |-> <<>>, targetLocations |-> <<>>],
     [skills |-> <<<<"P", "o", "s", "t", "g", "r", "e", "S", "Q", "L">>, <<"c", "h", "a", "n", "g", "e", " ", "m", "a", "n", "a", "g", "e", "m", "e", "n", "t">>>>,
      targetLocations |-> <<<<"D", "e", "l", "h", "i", " ", "N", "C", "R">>, <<"R", "e", "m", "o", "t", "e">>>>],
     [skills |-> <<<<"S", "Q", "L">>,
                   <<"P", "o", "s", "t", "g", "r", "e", "s">>,
                   <<"P", "o", "s", "t", "g", "r", "e", "S", "Q", "L">>,
                   <<"P", "o", "w", "e", "r">>,
                   <<"B", "I">>,
                   <<"P", "o", "w", "e", "r", " ", "B", "I">>,
                   <<"A", "P", "I">>,
                   <<"A", "P", "I", " ", "i", "n", "t", "e", "g", "r", "a", "t", "i", "o", "n", "s">>>>,
      targetLocations |-> <<<<"R", "e", "m", "o", "t", "e">>>>]}

\* job: null, or a job whose postedDate is absent (<<>>) or a string
PostedDates ==
    {<<>>,
     <<"T", "o", "d", "a", "y">>,
     <<"1", " ", "D", "a", "y", " ", "A", "g", "o">>,
     <<"3", " ", "d", "a", "y", "s", " ", "a", "g", "o">>,
     <<"F", "e", "w", " ", "H", "o", "u", "r", "s", " ", "A", "g", "o">>}
Jobs ==
    {[present |-> FALSE, postedDate |-> <<>>]}
    \cup {[present |-> TRUE, postedDate |-> d] : d \in PostedDates}

ScreenFrame == UNCHANGED <<ovars, bvars, tvars, started, lastCheck, lvars, rvars, mvars>>

\* keywordFallbackScreen(jdText, profile, job), called once on each input
Screen(ix, profile, job) ==
    /\ screenIn = {}
    /\ screenIn' = {[jdText |-> Concat(ix), profile |-> profile, job |-> job]}
    /\ screenOut' = {KeywordFallbackScreen(Concat(ix), profile, job)}
    /\ ScreenFrame

NextScreen == \E ix \in JdTexts, profile \in Profiles, job \in Jobs : Screen(ix, profile, job)

SpecScreen == Init /\ [][NextScreen]_vars

\* ------------------------------------------------- claims on SpecScreen
\* the profile skills found in the JD text
SkillHitCount(in) ==
    Cardinality({i \in 1..Len(in.profile.skills) :
                    Includes(ToLowerCase(in.jdText), ToLowerCase(in.profile.skills[i]))})

\* the score the fixed deltas give before it is limited to 0..100
DeltaSum(in) ==
    LET text == ToLowerCase(in.jdText)
        lower(list) == [i \in 1..Len(list) |-> ToLowerCase(list[i])]
        skillHits == SkillHitCount(in)
        roleHits == Cardinality({i \in 1..Len(RoleKeywords) : Includes(text, RoleKeywords[i])})
        negHits == Cardinality({i \in 1..Len(Negatives) : Includes(text, Negatives[i])})
        location == \E i \in 1..Len(in.profile.targetLocations) :
                        Includes(text, lower(in.profile.targetLocations)[i])
        experience == \E i \in 1..Len(ExperienceMarks) : Includes(text, ExperienceMarks[i])
        fresh == /\ in.job.present
                 /\ \E i \in 1..Len(FreshMarks) :
                        Includes(ToLowerCase(in.job.postedDate), FreshMarks[i])
    IN  40 + 5 * roleHits + (IF 3 * skillHits > 20 THEN 20 ELSE 3 * skillHits)
           + (IF location THEN 5 ELSE 0) + (IF experience THEN 5 ELSE 0)
           - 15 * negHits + (IF fresh THEN 100 ELSE 0)

\* C13: quickScore lies within 0..100 and is the base 40 plus the fixed
\* deltas (+5 per role keyword, +3 per skill hit capped at +20, +5
\* location, +5 experience, -15 per negative keyword, +100 freshness),
\* limited to 0..100; worthAnalyzing is true exactly when quickScore >= 50
C13_KeywordScore ==
    \A in \in screenIn : \A out \in screenOut :
        /\ out.quickScore \in 0..100
        /\ out.quickScore = (IF DeltaSum(in) < 0 THEN 0
                             ELSE IF DeltaSum(in) > 100 THEN 100 ELSE DeltaSum(in))
        /\ out.worthAnalyzing = (out.quickScore >= 50)

\* C13 witness: a fresh job whose text names a negative keyword and seven
\* profile skills (bonus held at 20); the sum is above 100, the score 100
C13_Witness ==
    \E in \in screenIn : \E out \in screenOut :
        /\ 3 * SkillHitCount(in) > 20
        /\ Includes(ToLowerCase(in.jdText), Negatives[1])
        /\ in.job.present
        /\ DeltaSum(in) > 100
        /\ out.quickScore = 100 /\ out.worthAnalyzing

\* ------------------------------------------------------------ memory.js
\* readJSON(name): the parsed file, or null when reading or parsing fails;
\* every caller here continues with `|| []`
ReadJSONOrEmpty(file, ok) == IF ok THEN file ELSE <<>>

MemoryFrame ==
    UNCHANGED <<ovars, bvars, tvars, started, lastCheck, lvars, rvars, svars>>

\* logApplication(jobData): record lastLogged + 1 is logged.  Each of the
\* two reads may fail (readJSON returns null) and each of the two writes
\* may throw; the archive's write is inside the try, the final one is not.
LogApplication(mainRead, archRead, archWrite, mainWrite) ==
    LET id == lastLogged + 1
        pushed == Append(ReadJSONOrEmpty(appliedFile, mainRead), id)
        over == Len(pushed) > AppliedCap
        cut == IF over THEN Len(pushed) - AppliedCap ELSE 0
        archived == SubSeq(pushed, 1, cut)
        jobs == SubSeq(pushed, cut + 1, Len(pushed))
        existing == ReadJSONOrEmpty(archiveFile, archRead) \o archived
        failed == (IF mainRead THEN {} ELSE {"mainRead"})
                  \cup (IF over /\ ~archRead THEN {"archRead"} ELSE {})
                  \cup (IF over /\ ~archWrite THEN {"archWrite"} ELSE {})
                  \cup (IF mainWrite THEN {} ELSE {"mainWrite"})
    IN  /\ logCalls < MaxLogs
        /\ logCalls' = logCalls + 1
        /\ archiveFile' = IF over /\ archWrite THEN existing ELSE archiveFile
        /\ IF mainWrite
           THEN appliedFile' = jobs /\ lastLogged' = id
           ELSE UNCHANGED <<appliedFile, lastLogged>>
        /\ ioFailed' = ioFailed \cup failed
        /\ MemoryFrame

\* applied-jobs.json is new, or holds one record less than the cap or the
\* cap; the archive is absent or holds the ArchivedBefore oldest records
InitMemory ==
    /\ OrchInit
    /\ now = DayMs /\ tz = 0
    /\ log = FreshLog(now) /\ forceCheap = FALSE
    /\ started = TRUE /\ lastCheck = "none"
    /\ LimiterInit
    /\ routeArg = "none" /\ routeOut = "none" /\ fallbackOut = <<>>
    /\ screenIn = {} /\ screenOut = {}
    /\ ioFailed = {} /\ logCalls = 0
    /\ \E a \in {0, ArchivedBefore}, n \in {0, AppliedCap - 1, AppliedCap} :
         /\ archiveFile = [i \in 1..a |-> i]
         /\ appliedFile = [i \in 1..n |-> a + i]
         /\ lastLogged = a + n

NextMemory ==
    \E mainRead \in BOOLEAN, archRead \in BOOLEAN, archWrite \in BOOLEAN,
       mainWrite \in BOOLEAN : LogApplication(mainRead, archRead, archWrite, mainWrite)

SpecMemory == InitMemory /\ [][NextMemory]_vars

\* ------------------------------------------------- claims on SpecMemory
Stored == {appliedFile[i] : i \in 1..Len(appliedFile)}
          \cup {archiveFile[i] : i \in 1..Len(archiveFile)}
NoneLost == \A id \in 1..lastLogged : id \in Stored

\* applied-jobs.json never holds more than the cap
C14_Cap == Len(appliedFile) <= AppliedCap

\* what a logApplication leaves in applied-jobs.json is the end of the
\* array it read with the new record pushed: only the oldest are removed
C14_OldestRemoved ==
    [][(lastLogged' # lastLogged /\ "mainRead" \notin ioFailed') =>
          \E k \in 0..Len(appliedFile) :
             appliedFile' = SubSeq(Append(appliedFile, lastLogged'), k + 1,
                                   Len(appliedFile) + 1)]_vars

\* no record is lost as long as no file operation has failed
C14_NoLossWithoutFailures == ioFailed = {} => NoneLost

\* C14 (as claimed): after every logApplication applied-jobs.json holds at
\* most 2000 records and every record ever logged is in applied-jobs.json
\* or in applied-jobs-archive.json, also when the archive read or write
\* has failed (applied-jobs.json itself always read and written)
C14_CapAndArchive ==
    /\ Len(appliedFile) <= AppliedCap
    /\ ioFailed \subseteq {"archRead", "archWrite"} =>
          \A id \in 1..lastLogged : id \in Stored

====
